---------------------------- MODULE Spec2Model ----------------------------
(***************************************************************************)
(* The multi-stage processing pipeline of pipeline_core.py:                *)
(*   ImageCurationEngine        score, sort and select the top fraction    *)
(*   ContentGenerationEngine    LLaVA first, Gemini second, placeholder    *)
(*   MetadataPersistenceLayer   XMP sidecar or embedded metadata           *)
(*   MultiStageProcessingPipeline.process_directory                        *)
(* together with the EXIF/XMP writers of experimental/unified_analyzer.py. *)
(*                                                                         *)
(* and web/app.py, and the GUI's status queue protocol.                    *)
(*                                                                         *)
(* Nine specifications share the variables:                               *)
(*   Spec         one process_directory call over a directory              *)
(*   SpecSidecars the same call in sidecar mode over mixed file formats    *)
(*   SpecCurate   curate_images_by_quality alone, over wider directories   *)
(*   SpecEntry    the curation of the queue and of the callback entry      *)
(*   SpecPersist  the metadata writers applied repeatedly to one image     *)
(*   SpecAnalyze  analyze_image applied repeatedly to one image            *)
(*   SpecGui      the GUI's pipeline thread and its queue poll             *)
(*   SpecGuiFair  the same under fair scheduling of thread and poll        *)
(*   SpecButtons  the Start and Stop buttons and two threads               *)
(***************************************************************************)
EXTENDS Integers, Sequences, FiniteSets, TLC

(***************************************************************************)
(* Bounds of the model.                                                    *)
(***************************************************************************)
\* files in the directory of a process_directory run
MaxFiles == 2
\* files in the directory of a curation-only run
MaxCurateFiles == 3
\* longest tag list a backend returns in the persistence specification
MaxTags == 2
\* longest description or comment field the web writer is let to build
MaxPieces == 2
\* pipeline threads the GUI is let to start
MaxRuns == 2

(***************************************************************************)
(* Encodings of Python values.                                             *)
(***************************************************************************)
\* score_image returning None
None == -2
\* a callee raising an exception (metric call, Image.open, getsize)
Raises == -1
\* the heuristic's value when its computation raises
DefaultScore == 50
\* an image file without a Rating tag
NoRating == 0

Max(a, b) == IF a >= b THEN a ELSE b
Min(a, b) == IF a <= b THEN a ELSE b

\* math.ceil(s / 2) for an integer s
CeilHalf(s) == (s + 1) \div 2

(***************************************************************************)
(* Directory contents.  A file is its extension class, what the loaded IQA *)
(* metric does on it, what the heuristic computes on it and whether it     *)
(* lies in a subdirectory (nested) or in the directory itself.             *)
(***************************************************************************)
MetricVals == {10, 30}
HeurVals == {70, 90}

PngFile == [ext |-> "png", metric |-> Raises, heur |-> Raises, nested |-> FALSE]

FileDomain ==
    {PngFile} \cup [ext : {"jpg"}, metric : MetricVals \cup {Raises},
                    heur : HeurVals \cup {Raises}, nested : {FALSE}]

\* a readable TIFF file
TifFile == [ext |-> "tif", metric |-> 10, heur |-> 70, nested |-> FALSE]

\* the files of a process_directory run: PNG, or readable JPEG
PipeFileDomain ==
    {PngFile} \cup [ext : {"jpg"}, metric : MetricVals, heur : {70}, nested : {FALSE}]

\* the files of a run over a directory of mixed formats
MixedFileDomain ==
    {PngFile, TifFile, [ext |-> "jpg", metric |-> 10, heur |-> 70, nested |-> FALSE]}

\* supported_extensions in the order the discovery loop globs them
ExtRank(ext) == IF ext = "jpg" THEN 1 ELSE IF ext = "png" THEN 2 ELSE 3

\* image_files is built extension by extension: the files of an earlier
\* extension stand before those of a later one
GlobOrdered(d) ==
    \A j, k \in 1..Len(d) : j < k => ExtRank(d[j].ext) <= ExtRank(d[k].ext)

SeqsUpTo(S, n) == UNION {[1..k -> S] : k \in 0..n}

VARIABLES
    image_dir,        \* the supported image files under the directory, in rglob order
    config,           \* the pipeline's configuration and constructed engines
    pc,               \* position of the running call
    image_files,      \* curate: the enumerated files (indices into image_dir)
    i,                \* index of the loop the call is in
    scores,           \* curate: (path, score) pairs scored so far / sorted
    curated_images,   \* the list curation returned
    analysis_results, \* process_directory: the per-image result records
    success_count,    \* write_metadata_batch: files written
    status_queue,     \* messages put on the status queue
    backend_calls,    \* backend calls: how many in this run, and those of the
                      \* latest analyze_image call in order
    result,           \* the value process_directory returned
    embedded,         \* per image: the metadata embedded in the image file
    sidecar,          \* per image: the XMP sidecar, or NoFile
    lastWrite,        \* the last writer call: its arguments and what it wrote
    write_returns,    \* write_metadata_batch: what each writer call returned
    gui               \* the GUI's main thread: where process_queue stands,
                      \* is_processing, what it did with each item it took,
                      \* the threads it started, and the variables of the
                      \* pipeline thread that is not the one in pc, i, ...

vars == <<image_dir, config, pc, image_files, i, scores, curated_images,
          analysis_results, success_count, status_queue, backend_calls,
          result, embedded, sidecar, lastWrite, write_returns, gui>>

Msg(t, k, n) == [t |-> t, k |-> k, n |-> n]

(***************************************************************************)
(* ImageCurationEngine                                                     *)
(***************************************************************************)
\* _fallback_quality_score: the heuristic, or 50.0 when it raises
FallbackQualityScore(f) == IF f.heur = Raises THEN DefaultScore ELSE f.heur

\* score_image: None for PNG; the heuristic when no metric is loaded or the
\* metric raises; the metric's value otherwise
ScoreImage(f, iqa_loaded) ==
    IF f.ext = "png" THEN None
    ELSE IF ~iqa_loaded THEN FallbackQualityScore(f)
    ELSE IF f.metric # Raises THEN f.metric
    ELSE FallbackQualityScore(f)

\* the names the configuration's iqa_model takes
IqaModels == {"brisque", "niqe", "musiq", "topiq"}

\* ImageCurationEngine.__init__ and _init_iqa_model: without pyiqa no metric;
\* the metric selected by name if create_metric loads it; else, for a name
\* other than brisque, BRISQUE if that loads; else no metric.  loadable are
\* the names create_metric loads, lower the lower_better attribute of the
\* selected metric's object (BRISQUE's is true).  iqa_load records which
\* create_metric call gave the metric
InitIqaModel(name, available, loadable, lower) ==
    IF available /\ name \in loadable
    THEN [iqa_loaded |-> TRUE, lower_better |-> (name = "brisque" \/ lower),
          iqa_load |-> "selected"]
    ELSE IF available /\ name # "brisque" /\ "brisque" \in loadable
    THEN [iqa_loaded |-> TRUE, lower_better |-> TRUE, iqa_load |-> "brisque"]
    ELSE [iqa_loaded |-> FALSE, lower_better |-> FALSE, iqa_load |-> "none"]

\* what constructing the curation engine can give
EngineOutcomes ==
    {InitIqaModel(name, available, loadable, lower) :
        name \in IqaModels, available \in BOOLEAN,
        loadable \in SUBSET IqaModels, lower \in BOOLEAN}

\* mutant: the heuristic's scores sorted ascending
ReverseSort_FallbackAscending(cfg) == IF cfg.iqa_loaded THEN ~cfg.lower_better ELSE FALSE

\* mutant: the sort direction ignoring the metric's lower_better
ReverseSort_Always(cfg) == TRUE

\* reverse_sort of curate_images_by_quality
ReverseSort(cfg) == IF cfg.iqa_loaded THEN ~cfg.lower_better ELSE TRUE

\* list.sort(key=score, reverse=r): stable in both directions
InsertStable(x, t, reverse) ==
    LET stays(e) == IF reverse THEN e.score >= x.score ELSE e.score <= x.score
        k == Cardinality({j \in 1..Len(t) : stays(t[j])})
    IN SubSeq(t, 1, k) \o <<x>> \o SubSeq(t, k + 1, Len(t))

RECURSIVE SortScores(_, _)
SortScores(s, reverse) ==
    IF s = <<>> THEN <<>>
    ELSE InsertStable(s[Len(s)], SortScores(SubSeq(s, 1, Len(s) - 1), reverse), reverse)

\* mutant: the selection size without its floor of one image
NumToSelect_NoMin(n, top_percent) == (n * top_percent) \div 100

\* num_to_select = max(1, int(len(scores) * top_percent)), top_percent in percent
NumToSelect(n, top_percent) == Max(1, (n * top_percent) \div 100)

TopImages(s, cfg) ==
    SubSeq(SortScores(s, ReverseSort(cfg)), 1, NumToSelect(Len(s), cfg.top_percent))

\* the files rglob finds, or with recursive false those glob finds: the
\* ones in the directory itself
RECURSIVE Discover(_, _)
Discover(k, recursive) ==
    IF k = 0 THEN <<>>
    ELSE IF recursive \/ ~image_dir[k].nested
    THEN Append(Discover(k - 1, recursive), k)
    ELSE Discover(k - 1, recursive)

\* curate_images_by_quality, file discovery with the recursive flag
\* process_directory passes: nothing found returns []
Scan ==
    /\ pc = "scan"
    /\ image_files' = Discover(Len(image_dir), config.recursive)
    /\ IF Len(image_files') = 0
       THEN /\ status_queue' = status_queue \o <<Msg("iqa_start", 0, 0), Msg("no_files", 0, 0)>>
            /\ curated_images' = <<>>
            /\ pc' = "curated"
       ELSE /\ status_queue' = status_queue \o
                  <<Msg("iqa_start", 0, 0), Msg("found", Len(image_files'), 0)>>
            /\ curated_images' = curated_images
            /\ pc' = "score"
    /\ i' = 1
    /\ scores' = <<>>
    /\ UNCHANGED <<gui, image_dir, config, write_returns, analysis_results, success_count,
                   backend_calls, result, embedded, sidecar, lastWrite>>

\* one iteration of the scoring loop
ScoreStep ==
    /\ pc = "score"
    /\ i <= Len(image_files)
    /\ LET score == ScoreImage(image_dir[image_files[i]], config.iqa_loaded)
       IN scores' = IF score # None
                    THEN Append(scores, [path |-> image_files[i], score |-> score])
                    ELSE scores
    /\ status_queue' = Append(status_queue, Msg("scoring", i, Len(image_files)))
    /\ i' = i + 1
    /\ UNCHANGED <<gui, image_dir, config, write_returns, pc, image_files, curated_images,
                   analysis_results, success_count, backend_calls, result,
                   embedded, sidecar, lastWrite>>

\* mutant: the sort and selection done as soon as one file went through the
\* scoring loop
SortSelect_AfterFirstFile ==
    /\ pc = "score"
    /\ i >= 2
    /\ IF scores = <<>>
       THEN /\ status_queue' = Append(status_queue, Msg("none_scored", 0, 0))
            /\ curated_images' = <<>>
            /\ scores' = scores
       ELSE /\ scores' = SortScores(scores, ReverseSort(config))
            /\ curated_images' = TopImages(scores, config)
            /\ status_queue' = status_queue \o
                  <<Msg("selected", Len(TopImages(scores, config)), 0),
                    Msg("score_range", 0, 0)>>
    /\ pc' = "curated"
    /\ UNCHANGED <<gui, image_dir, config, write_returns, image_files, i, analysis_results,
                   success_count, backend_calls, result, embedded, sidecar,
                   lastWrite>>

\* after the loop: nothing scored returns []; otherwise sort and take the prefix
SortSelect ==
    /\ pc = "score"
    /\ i > Len(image_files)
    /\ IF scores = <<>>
       THEN /\ status_queue' = Append(status_queue, Msg("none_scored", 0, 0))
            /\ curated_images' = <<>>
            /\ scores' = scores
       ELSE /\ scores' = SortScores(scores, ReverseSort(config))
            /\ curated_images' = TopImages(scores, config)
            /\ status_queue' = status_queue \o
                  <<Msg("selected", Len(TopImages(scores, config)), 0),
                    Msg("score_range", 0, 0)>>
    /\ pc' = "curated"
    /\ UNCHANGED <<gui, image_dir, config, write_returns, image_files, i, analysis_results,
                   success_count, backend_calls, result, embedded, sidecar,
                   lastWrite>>

(***************************************************************************)
(* Python values carried by an analysis dictionary.                        *)
(***************************************************************************)
Absent == "<absent>"

\* a score: an int, a JSON string, JSON null, or no "score" key
IntScore(n) == [kind |-> "int", v |-> n]
StrScore == [kind |-> "str", v |-> 0]
NullScore == [kind |-> "none", v |-> 0]
NoScore == [kind |-> "absent", v |-> 0]

\* tags: a list of strings, a list holding a non-string first (v keeps its
\* string items), a JSON string, or no "tags" key
ListTags(s) == [kind |-> "list", v |-> s]
IntListTags == [kind |-> "intlist", v |-> <<>>]
StrTags == [kind |-> "notalist", v |-> <<>>]
NoTags == [kind |-> "absent", v |-> <<>>]

Dict(c, sc, t, s, cr) ==
    [category |-> c, subcategory |-> sc, tags |-> t, score |-> s,
     critique |-> cr, quality_score |-> None]

\* Optional[Dict]
Some(d) == [some |-> TRUE, data |-> d]
Nothing == [some |-> FALSE, data |-> Dict(Absent, Absent, NoTags, NoScore, Absent)]

\* what a backend call yields: no HTTP 200 / an exception, text that is not
\* JSON, or a JSON object
Unreachable == [kind |-> "unreachable", data |-> Nothing.data]
NotJson == [kind |-> "notjson", data |-> Nothing.data]
JsonDict(d) == [kind |-> "dict", data |-> d]

(***************************************************************************)
(* ContentGenerationEngine                                                 *)
(***************************************************************************)
\* analyze_image_with_llava_13b: a JSON object with a "category" key
AnalyzeWithLlava(r) ==
    IF r.kind = "dict" /\ r.data.category # Absent THEN Some(r.data) ELSE Nothing

\* required_keys of analyze_image_with_gemini
RequiredKeysPresent(d, critique_mode) ==
    /\ d.category # Absent
    /\ d.subcategory # Absent
    /\ d.tags.kind # "absent"
    /\ d.score.kind # "absent"
    /\ (critique_mode => d.critique # Absent)

\* analyze_image_with_gemini
AnalyzeWithGemini(r, critique_mode) ==
    IF r.kind = "dict" /\ RequiredKeysPresent(r.data, critique_mode)
    THEN Some(r.data) ELSE Nothing

\* the final fallback of analyze_image
Placeholder ==
    Dict("Thing", "Other", ListTags(<<"AI", "Analyzed">>), IntScore(6),
         "Analysis failed - using placeholder data")

\* the keys of PROMPT_PROFILES
PromptProfiles ==
    {"professional_art_critic", "street_photographer", "commercial_photographer",
     "photojournalist", "social_media_influencer"}

\* the default of get_analysis_prompt's profile_key
DefaultProfile == "professional_art_critic"

\* get_analysis_prompt: the profile whose persona and criteria the prompt
\* carries, and whether its JSON template asks for a critique
GetAnalysisPrompt(cfg, profile_key) ==
    [persona |-> IF profile_key \in PromptProfiles THEN profile_key
                 ELSE "professional_art_critic",
     critique |-> cfg.enable_gallery_critique]

\* a backend call as recorded: the image, the backend, the prompt sent, the
\* kind of answer, the critique text it carried and what the
\* analyze_image_with_ method made of it
BackendCall(k, backend, prompt, r, res) ==
    [image |-> k, backend |-> backend, prompt |-> prompt, kind |-> r.kind,
     critique |-> r.data.critique, accepted |-> res.some, result |-> res]

\* analyze_image: the backend calls it makes for image k, in order, when the
\* backends answer rl and rg; both methods call get_analysis_prompt()
\* without an argument
BackendsCalled(cfg, rl, rg, k) ==
    (IF cfg.llava
     THEN <<BackendCall(k, "llava", GetAnalysisPrompt(cfg, DefaultProfile), rl,
                        AnalyzeWithLlava(rl))>>
     ELSE <<>>) \o
    (IF cfg.gemini /\ ~(cfg.llava /\ AnalyzeWithLlava(rl).some)
     THEN <<BackendCall(k, "gemini", GetAnalysisPrompt(cfg, DefaultProfile), rg,
                        AnalyzeWithGemini(rg, cfg.enable_gallery_critique))>>
     ELSE <<>>)

\* mutant: analyze_image asking Gemini before LLaVA
AnalyzeImage_GeminiFirst(cfg, rl, rg) ==
    IF cfg.gemini /\ AnalyzeWithGemini(rg, cfg.enable_gallery_critique).some
    THEN AnalyzeWithGemini(rg, cfg.enable_gallery_critique)
    ELSE IF cfg.llava /\ AnalyzeWithLlava(rl).some THEN AnalyzeWithLlava(rl)
    ELSE Some(Placeholder)

\* mutant: analyze_image without its final fallback
AnalyzeImage_NoPlaceholder(cfg, rl, rg) ==
    IF cfg.llava /\ AnalyzeWithLlava(rl).some THEN AnalyzeWithLlava(rl)
    ELSE IF cfg.gemini /\ AnalyzeWithGemini(rg, cfg.enable_gallery_critique).some
    THEN AnalyzeWithGemini(rg, cfg.enable_gallery_critique)
    ELSE Nothing

\* analyze_image: LLaVA 13B first, Gemini second, placeholder last
AnalyzeImage(cfg, rl, rg) ==
    IF cfg.llava /\ AnalyzeWithLlava(rl).some THEN AnalyzeWithLlava(rl)
    ELSE IF cfg.gemini /\ AnalyzeWithGemini(rg, cfg.enable_gallery_critique).some
    THEN AnalyzeWithGemini(rg, cfg.enable_gallery_critique)
    ELSE Some(Placeholder)

(***************************************************************************)
(* experimental/unified_analyzer.py, UnifiedAnalyzer                       *)
(***************************************************************************)
\* AnalysisConfig.critique_threshold
CritiqueThreshold == 5

\* parse_response: the required keys, then the critique post-processing,
\* whose `score > critique_threshold` raises on a score that is no number
\* (the caller's except returns None)
UnifiedParseResponse(r, has_critique, cfg) ==
    IF r.kind = "dict" /\ RequiredKeysPresent(r.data, has_critique)
    THEN IF ~cfg.enable_gallery_critique /\ has_critique
         THEN IF r.data.score.kind # "int" THEN Nothing
              ELSE IF r.data.score.v > CritiqueThreshold
              THEN Some([r.data EXCEPT !.critique = Absent])
              ELSE Some(r.data)
         ELSE Some(r.data)
    ELSE Nothing

\* analyze_image: one backend, chosen by model_type, asked with
\* enable_critique = enable_gallery_critique
UnifiedAnalyzeImage(cfg, r) ==
    UnifiedParseResponse(r, cfg.enable_gallery_critique, cfg)

(***************************************************************************)
(* MetadataPersistenceLayer                                                *)
(***************************************************************************)
\* rating of write_xmp_sidecar / write_embedded_metadata: 3 unless the score
\* is a number, else int(score) clamped to 1..5
CoreRating(score) ==
    IF score.kind # "int" THEN 3 ELSE Max(1, Min(5, score.v))

InTags(x, tags) == \E j \in 1..Len(tags.v) : tags.v[j] = x

\* `"GALLERY" not in tags` followed by tags.append raises on a string
GalleryRaises(tags, rating) == rating = 5 /\ tags.kind = "notalist"

\* the tag list after `if rating == 5 and "GALLERY" not in tags: tags.append`
GalleryTags(tags, rating) ==
    IF rating = 5 /\ ~InTags("GALLERY", tags)
    THEN [kind |-> IF tags.kind = "absent" THEN "list" ELSE tags.kind,
          v |-> Append(tags.v, "GALLERY")]
    ELSE IF tags.kind = "absent" THEN ListTags(<<>>) ELSE tags

\* analysis_data after the writer ran: append mutates the list the dictionary
\* holds; the default [] of .get is not stored back
CoreMutated(d) ==
    IF d.tags.kind \in {"list", "intlist"}
    THEN [d EXCEPT !.tags = GalleryTags(d.tags, CoreRating(d.score))]
    ELSE d

\* write_xmp_sidecar / write_embedded_metadata up to the ExifTool call:
\* whether it raised before writing, and the rating and tags it hands over
CoreWrite(d) ==
    [raised |-> GalleryRaises(d.tags, CoreRating(d.score)),
     rating |-> CoreRating(d.score),
     tags |-> GalleryTags(d.tags, CoreRating(d.score))]

\* a file name as its dot-separated parts: photo.jpg is <<"photo", "jpg">>
Stems == <<"IMG_1", "IMG_2", "IMG_3", "IMG_4">>

\* the files of one extension are named IMG_1, IMG_2, ... in glob order, so
\* that files of different extensions share base names (IMG_1.jpg, IMG_1.tif)
NameIndex(k) ==
    Cardinality({j \in 1..k : image_dir[j].ext = image_dir[k].ext})

\* the path of the k-th file of the directory
ImagePath(k) == <<Stems[NameIndex(k)], image_dir[k].ext>>

\* PurePath.suffix: the last dot-separated part of the name, if it has one
Suffix(p) == IF Len(p) > 1 THEN <<p[Len(p)]>> ELSE <<>>

\* PurePath.with_suffix: the name with its suffix replaced by the parts s
WithSuffix(p, s) == (IF Len(p) > 1 THEN SubSeq(p, 1, Len(p) - 1) ELSE p) \o s

\* xmp_path of pipeline_core's write_xmp_sidecar
XmpPath(image_path) == WithSuffix(image_path, <<"xmp">>)

\* xmp_path of the experimental analyzer's and the web app's write_xmp_sidecar
UnifiedXmpPath(image_path) == WithSuffix(image_path, Suffix(image_path) \o <<"xmp">>)

\* a formatted piece of a text field: the f-string that built it (label) and
\* the values it interpolates; a field is the sequence of its pieces, joined
\* by " | " in the file
Piece(label, c, sc, cr, n, t) ==
    [label |-> label, category |-> c, subcategory |-> sc, critique |-> cr,
     n |-> n, tags |-> t]

\* the fields write_xmp_sidecar sets: XMP-dc:Description is the critique
\* (XMP-dc:Title repeats the rating)
CoreXmpWrite(d) ==
    [raised |-> CoreWrite(d).raised, rating |-> CoreWrite(d).rating,
     tags |-> CoreWrite(d).tags,
     description |-> <<Piece("", Absent, Absent, d.critique, 0, NoTags)>>,
     comment |-> <<>>]

\* the fields write_embedded_metadata sets: EXIF:ImageDescription is
\* "Category: c, Rating: r/5", EXIF:UserComment the critique
CoreEmbeddedWrite(d) ==
    [raised |-> CoreWrite(d).raised, rating |-> CoreWrite(d).rating,
     tags |-> CoreWrite(d).tags,
     description |->
         <<Piece("Category:", d.category, Absent, Absent, CoreWrite(d).rating, NoTags)>>,
     comment |-> <<Piece("", Absent, Absent, d.critique, 0, NoTags)>>]

\* the metadata of a file: its rating, keywords, description and comment
NoRecord ==
    [rating |-> NoRating, tags |-> ListTags(<<>>), description |-> <<>>,
     comment |-> <<>>]

\* sidecar[k]: the file image k's sidecar was written to, by its name and
\* what it holds now (another image's write to the same name replaces it)
NoSidecar == [present |-> FALSE, name |-> <<>>, record |-> NoRecord]

NoWrite ==
    [writer |-> "none", path |-> 0, target |-> <<>>, data |-> Nothing.data,
     before |-> NoRating, ok |-> FALSE, rating |-> NoRating, tags |-> ListTags(<<>>),
     changed |-> FALSE, repeated |-> FALSE]

\* what the file `target` of image k holds
DiskRecord(k, target) ==
    IF target = ImagePath(k) THEN embedded[k]
    ELSE IF \E m \in DOMAIN sidecar : sidecar[m].present /\ sidecar[m].name = target
    THEN sidecar[CHOOSE m \in DOMAIN sidecar :
                     sidecar[m].present /\ sidecar[m].name = target].record
    ELSE NoRecord

\* a writer call on image k: what it is recorded to have done (changed: the
\* target file holds another record than before the call; repeated: the call
\* before it was the same writer given the same data, and wrote) and what it
\* leaves on disk.  w is the writer's outcome up to its write, io_ok whether
\* the write itself went through, target the file it writes, which is the
\* image file itself for an embedded writer
ApplyWrite(k, d, writer, w, io_ok, target) ==
    LET ok == ~w.raised /\ io_ok
        to_image == target = ImagePath(k)
        written == [rating |-> w.rating, tags |-> w.tags,
                    description |-> w.description, comment |-> w.comment]
    IN /\ lastWrite' =
            [writer |-> writer, path |-> k, target |-> target, data |-> d,
             before |-> embedded[k].rating, ok |-> ok, rating |-> w.rating,
             tags |-> w.tags, changed |-> ok /\ written # DiskRecord(k, target),
             repeated |-> /\ lastWrite.ok
                          /\ lastWrite.writer = writer
                          /\ lastWrite.data = d]
       /\ embedded' = IF ok /\ to_image
                      THEN [embedded EXCEPT ![k] = written]
                      ELSE embedded
       /\ sidecar' = IF ok /\ ~to_image
                     THEN [m \in DOMAIN sidecar |->
                               IF m = k \/ (sidecar[m].present /\ sidecar[m].name = target)
                               THEN [present |-> TRUE, name |-> target, record |-> written]
                               ELSE sidecar[m]]
                     ELSE sidecar

\* mutant: the dispatch that writes into the image file whatever the mode
WriteMetadata_AlwaysEmbedded(k, d, use_exif, io_ok) ==
    ApplyWrite(k, d, "write_embedded_metadata", CoreEmbeddedWrite(d), io_ok,
               ImagePath(k))

\* write_metadata_batch's dispatch on use_exif, io_ok being whether ExifTool's
\* set_tags went through
WriteMetadata(k, d, use_exif, io_ok) ==
    ApplyWrite(k, d,
               IF use_exif THEN "write_embedded_metadata" ELSE "write_xmp_sidecar",
               IF use_exif THEN CoreEmbeddedWrite(d) ELSE CoreXmpWrite(d), io_ok,
               IF use_exif THEN ImagePath(k) ELSE XmpPath(ImagePath(k)))

(***************************************************************************)
(* experimental/unified_analyzer.py, MetadataWriter.write_exif_data        *)
(***************************************************************************)
\* score = analysis_data.get('score', 0), None becoming 0; a string makes
\* `score >= 1` raise
UnifiedScoreRaises(score) == score.kind = "str"
UnifiedScore(score) == IF score.kind = "int" THEN score.v ELSE 0

\* star_rating = math.ceil(score / 2) if score >= 1 else 1
UnifiedStar(score) ==
    IF UnifiedScore(score) >= 1 THEN CeilHalf(UnifiedScore(score)) ELSE 1

\* final_rating: an existing rating of 4 or 5 is kept
UnifiedFinalRating(score, existing) ==
    IF existing \in {4, 5} THEN existing ELSE UnifiedStar(score)

\* write_exif_data up to piexif.insert: the score comparison, the append on a
\* string, the category/subcategory lookups and ", ".join on a non-string
\* item raise
UnifiedExifWrite(d, existing) ==
    LET final == UnifiedFinalRating(d.score, existing)
    IN [raised |-> \/ UnifiedScoreRaises(d.score)
                   \/ GalleryRaises(d.tags, final)
                   \/ d.category = Absent
                   \/ d.subcategory = Absent
                   \/ d.tags.kind = "intlist",
        rating |-> final,
        tags |-> GalleryTags(d.tags, final),
        description |-> <<Piece("Category:", d.category, d.subcategory, Absent, 0, NoTags)>>,
        comment |-> <<Piece("Critique:", Absent, Absent, d.critique,
                            UnifiedScore(d.score), GalleryTags(d.tags, final))>>]

\* experimental write_xmp_sidecar up to open(xmp_path, 'w'): the star rating
\* is not clamped and no existing rating is read; create_xmp_content indexes
\* category, subcategory and score
UnifiedXmpWrite(d) ==
    [raised |-> \/ UnifiedScoreRaises(d.score)
                \/ GalleryRaises(d.tags, UnifiedStar(d.score))
                \/ d.category = Absent
                \/ d.subcategory = Absent
                \/ d.score.kind = "absent",
     rating |-> UnifiedStar(d.score),
     tags |-> GalleryTags(d.tags, UnifiedStar(d.score)),
     description |-> <<Piece("", Absent, Absent, d.critique, 0, NoTags)>>,
     comment |-> <<>>]

(***************************************************************************)
(* web/app.py, ImageAnalyzer.write_exif_data                               *)
(***************************************************************************)
\* the metadata handling modes of the web application
HandlingModes == {"append", "replace"}

\* star_rating: a score up to 10 is halved, a larger one is clamped
WebStar(score) ==
    IF UnifiedScore(score) <= 10
    THEN Max(1, Min(5, CeilHalf(UnifiedScore(score))))
    ELSE Max(1, Min(5, UnifiedScore(score)))

\* final_rating: in append mode an existing rating of 4 or 5 is kept
WebFinalRating(score, existing, handling) ==
    IF handling = "append" /\ existing \in {4, 5} THEN existing ELSE WebStar(score)

\* ImageDescription: in append mode a non-empty existing description is
\* kept and " | AI: Category c, sc" is put after it
WebDescription(d, existing, handling) ==
    IF handling = "append" /\ existing # <<>>
    THEN Append(existing, Piece("AI: Category", d.category, d.subcategory, Absent, 0, NoTags))
    ELSE <<Piece("Category:", d.category, d.subcategory, Absent, 0, NoTags)>>

\* UserComment: in append mode an existing comment that does not start with
\* "Critique:" is kept as the base of the new one
WebComment(d, existing, handling, final) ==
    LET full == Piece("Critique:", Absent, Absent, d.critique, final,
                      GalleryTags(d.tags, final))
    IN IF handling = "append" /\ existing # <<>> /\ existing[1].label # "Critique:"
       THEN Append(existing, [full EXCEPT !.label = "AI: Critique:"])
       ELSE <<full>>

\* write_exif_data up to piexif.insert: `score <= 10` raises on a string or
\* None, the append on a string, the category/subcategory lookups on a
\* missing key, ", ".join on a non-string item
WebExifWrite(d, existing, handling) ==
    LET final == WebFinalRating(d.score, existing.rating, handling)
    IN [raised |-> \/ d.score.kind \in {"str", "none"}
                   \/ GalleryRaises(d.tags, final)
                   \/ d.category = Absent
                   \/ d.subcategory = Absent
                   \/ d.tags.kind = "intlist",
        rating |-> final,
        tags |-> GalleryTags(d.tags, final),
        description |-> WebDescription(d, existing.description, handling),
        comment |-> WebComment(d, existing.comment, handling, final)]

(***************************************************************************)
(* MultiStageProcessingPipeline.process_directory                          *)
(***************************************************************************)
NoReturn ==
    [returned |-> FALSE, success |-> FALSE, error |-> "", total_images_found |-> 0,
     images_analyzed |-> 0, metadata_written |-> 0]

\* the responses a backend gives in a process_directory run
PipeDicts ==
    {Dict(c, "Macro", t, s, Absent) :
        c \in {"Thing", Absent},
        t \in {ListTags(<<"Macro", "Candid">>), IntListTags},
        s \in {StrScore, IntScore(4)}}

Responses == {Unreachable, NotJson} \cup {JsonDict(d) : d \in PipeDicts}

\* the progress line of process_directory: ' '.join(tags[:4]) raises on a
\* non-string item, `score > 0` raises on a string or None
FormatRaises(d) ==
    \/ d.tags.kind = "intlist"
    \/ d.score.kind \in {"str", "none"}

\* entry: the two start messages
Start ==
    /\ pc = "start"
    /\ status_queue' = status_queue \o <<Msg("pipeline_start", 0, 0), Msg("target", 0, 0)>>
    /\ pc' = "scan"
    /\ UNCHANGED <<gui, image_dir, config, write_returns, image_files, i, scores, curated_images,
                   analysis_results, success_count, backend_calls, result,
                   embedded, sidecar, lastWrite>>

\* mutant: process_directory without its `if not curated_images` return
CheckCurated_NoEmptyCheck ==
    /\ pc = "curated"
    /\ status_queue' = Append(status_queue, Msg("ai_start", Len(curated_images), 0))
    /\ pc' = "analyze"
    /\ i' = 1
    /\ UNCHANGED <<gui, image_dir, config, write_returns, image_files, scores, curated_images,
                   analysis_results, success_count, backend_calls, result,
                   embedded, sidecar, lastWrite>>

\* `if not curated_images`: the structured failure; else stage 3 begins
CheckCurated ==
    /\ pc = "curated"
    /\ IF curated_images = <<>>
       THEN /\ status_queue' = Append(status_queue, Msg("none_selected", 0, 0))
            /\ result' = [NoReturn EXCEPT !.returned = TRUE,
                              !.error = "No images passed quality assessment"]
            /\ pc' = "done"
       ELSE /\ status_queue' = Append(status_queue, Msg("ai_start", Len(curated_images), 0))
            /\ result' = result
            /\ pc' = "analyze"
    /\ i' = 1
    /\ UNCHANGED <<gui, image_dir, config, write_returns, image_files, scores, curated_images,
                   analysis_results, success_count, backend_calls, embedded,
                   sidecar, lastWrite>>

\* one iteration of the analysis loop: `if analysis_data:` skips a None; the
\* exception of the progress line leaves process_directory
AnalyzeStep ==
    /\ pc = "analyze"
    /\ i <= Len(curated_images)
    /\ \E rl \in Responses, rg \in Responses :
         LET returned == AnalyzeImage(config, rl, rg)
             analysis_data == [returned.data EXCEPT
                                   !.quality_score = curated_images[i].score]
             analyzing == Msg("analyzing", i, Len(curated_images))
             called == BackendsCalled(config, rl, rg, curated_images[i].path)
         IN /\ backend_calls' =
                   [total |-> backend_calls.total + Len(called), last |-> called]
            /\ IF ~returned.some
               THEN /\ pc' = pc
                    /\ status_queue' = Append(status_queue, analyzing)
                    /\ analysis_results' = analysis_results
                    /\ i' = i + 1
               ELSE IF FormatRaises(analysis_data)
               THEN /\ pc' = "raised"
                    /\ status_queue' = Append(status_queue, analyzing)
                    /\ UNCHANGED <<analysis_results, i>>
               ELSE /\ pc' = pc
                    /\ status_queue' = status_queue \o <<analyzing, Msg("analyzed", i, 0)>>
                    /\ analysis_results' =
                           Append(analysis_results,
                                  [file_path |-> curated_images[i].path,
                                   analysis |-> analysis_data])
                    /\ i' = i + 1
    /\ UNCHANGED <<gui, image_dir, config, write_returns, image_files, scores, curated_images,
                   success_count, result, embedded, sidecar, lastWrite>>

\* write_metadata_batch, entry
BeginWrite ==
    /\ pc = "analyze"
    /\ i > Len(curated_images)
    /\ status_queue' = Append(status_queue, Msg("writing_start", Len(analysis_results), 0))
    /\ success_count' = 0
    /\ write_returns' = <<>>
    /\ i' = 1
    /\ pc' = "write"
    /\ UNCHANGED <<gui, image_dir, config, image_files, scores, curated_images,
                   analysis_results, backend_calls, result, embedded, sidecar,
                   lastWrite>>

\* mutant: write_metadata_batch giving up at the first write that fails
WriteStep_StopsOnFailure ==
    /\ pc = "write"
    /\ i <= Len(analysis_results)
    /\ \E io_ok \in BOOLEAN :
         LET success == ~CoreWrite(analysis_results[i].analysis).raised /\ io_ok
         IN /\ WriteMetadata(analysis_results[i].file_path,
                             analysis_results[i].analysis, config.use_exif, io_ok)
            /\ write_returns' = Append(write_returns, success)
            /\ success_count' = IF success THEN success_count + 1 ELSE success_count
    /\ analysis_results' =
           [analysis_results EXCEPT ![i].analysis = CoreMutated(@)]
    /\ status_queue' = Append(status_queue, Msg("writing", i, Len(analysis_results)))
    /\ i' = IF lastWrite'.ok THEN i + 1 ELSE Len(analysis_results) + 1
    /\ UNCHANGED <<gui, image_dir, config, pc, image_files, scores, curated_images,
                   backend_calls, result>>

\* mutant: write_metadata_batch going through the results last to first
WriteStep_Reversed ==
    /\ pc = "write"
    /\ i <= Len(analysis_results)
    /\ \E io_ok \in BOOLEAN :
         LET r == analysis_results[Len(analysis_results) + 1 - i]
             success == ~CoreWrite(r.analysis).raised /\ io_ok
         IN /\ WriteMetadata(r.file_path, r.analysis, config.use_exif, io_ok)
            /\ write_returns' = Append(write_returns, success)
            /\ success_count' = IF success THEN success_count + 1 ELSE success_count
    /\ analysis_results' =
           [analysis_results EXCEPT
                ![Len(analysis_results) + 1 - i].analysis = CoreMutated(@)]
    /\ status_queue' = Append(status_queue, Msg("writing", i, Len(analysis_results)))
    /\ i' = i + 1
    /\ UNCHANGED <<gui, image_dir, config, pc, image_files, scores, curated_images,
                   backend_calls, result>>

\* write_metadata_batch, one iteration
WriteStep ==
    /\ pc = "write"
    /\ i <= Len(analysis_results)
    /\ \E io_ok \in BOOLEAN :
         LET success == ~CoreWrite(analysis_results[i].analysis).raised /\ io_ok
         IN /\ WriteMetadata(analysis_results[i].file_path,
                             analysis_results[i].analysis, config.use_exif, io_ok)
            /\ write_returns' = Append(write_returns, success)
            /\ success_count' = IF success THEN success_count + 1 ELSE success_count
    /\ analysis_results' =
           [analysis_results EXCEPT ![i].analysis = CoreMutated(@)]
    /\ status_queue' = Append(status_queue, Msg("writing", i, Len(analysis_results)))
    /\ i' = i + 1
    /\ UNCHANGED <<gui, image_dir, config, pc, image_files, scores, curated_images,
                   backend_calls, result>>

\* write_metadata_batch returns; the statistics are built and returned
Finish ==
    /\ pc = "write"
    /\ i > Len(analysis_results)
    /\ status_queue' = status_queue \o
           <<Msg("writing_done", success_count, Len(analysis_results)),
             Msg("complete", 0, 0), Msg("processed", success_count, Len(analysis_results)),
             Msg("used_iqa", 0, 0), Msg("used_ai", 0, 0)>>
    /\ result' = [returned |-> TRUE, success |-> TRUE, error |-> "",
                  total_images_found |-> Len(curated_images),
                  images_analyzed |-> Len(analysis_results),
                  metadata_written |-> success_count]
    /\ pc' = "done"
    /\ UNCHANGED <<gui, image_dir, config, write_returns, image_files, i, scores, curated_images,
                   analysis_results, success_count, backend_calls, embedded,
                   sidecar, lastWrite>>

Percents == {50, 100}

\* the values the configuration's model_type takes
ModelTypes == {"gemini", "ollama"}

\* a configuration with its engines: google_api_key is whether the key is
\* non-empty, gemini and llava whether gemini_model and llava_13b_model are
\* set; gemini_model is only ever set under a key; recursive has its default
Configs(percents, modes, loaded) ==
    {c \in [top_percent : percents, use_exif : modes, iqa_loaded : loaded,
            lower_better : BOOLEAN, llava : BOOLEAN, gemini : BOOLEAN,
            enable_gallery_critique : {FALSE}, model_type : ModelTypes,
            google_api_key : BOOLEAN, prompt_profile : {DefaultProfile},
            iqa_load : {"none", "selected", "brisque"}, recursive : {TRUE}] :
        /\ ~c.iqa_loaded => ~c.lower_better
        /\ c.iqa_load = "none" <=> ~c.iqa_loaded
        /\ c.iqa_load = "brisque" => c.lower_better
        /\ c.gemini => c.google_api_key}

\* the configuration dictionary handed to the constructor, no engine built
Unconstructed(c) == ~c.iqa_loaded /\ ~c.llava /\ ~c.gemini

\* MultiStageProcessingPipeline.__init__: the three engines are built; a
\* metric that fails to load, a missing key, a failing genai.configure and
\* an unreachable Ollama are printed, never raised
Construct ==
    /\ pc = "construct"
    /\ \E engine \in EngineOutcomes, genai_ok \in BOOLEAN, llava_found \in BOOLEAN :
         config' = [config EXCEPT
                        !.iqa_loaded = engine.iqa_loaded,
                        !.lower_better = engine.lower_better,
                        !.iqa_load = engine.iqa_load,
                        !.gemini = config.google_api_key /\ genai_ok,
                        !.llava = llava_found]
    /\ pc' = "start"
    /\ UNCHANGED <<gui, image_dir, write_returns, image_files, i, scores,
                   curated_images, analysis_results, success_count, status_queue,
                   backend_calls, result, embedded, sidecar, lastWrite>>

\* the variables of a pipeline thread: the pipeline object it builds from
\* the configuration it is given, and its position in process_directory
Thread(cfg, at) ==
    [config |-> cfg, pc |-> at, image_files |-> <<>>, i |-> 1, scores |-> <<>>,
     curated_images |-> <<>>, analysis_results |-> <<>>, success_count |-> 0,
     backend_calls |-> [total |-> 0, last |-> <<>>], result |-> NoReturn,
     write_returns |-> <<>>]

\* no thread was started
NoThread ==
    Thread([top_percent |-> 100, use_exif |-> FALSE, iqa_loaded |-> FALSE,
            lower_better |-> FALSE, llava |-> FALSE, gemini |-> FALSE,
            enable_gallery_critique |-> FALSE, model_type |-> "ollama",
            google_api_key |-> FALSE, prompt_profile |-> DefaultProfile,
            iqa_load |-> "none", recursive |-> TRUE], "not_started")

FreshDisk(n, ratings) ==
    /\ embedded \in [1..n -> {[NoRecord EXCEPT !.rating = r] : r \in ratings}]
    /\ sidecar = [k \in 1..n |-> NoSidecar]
    /\ lastWrite = NoWrite

Idle ==
    /\ image_files = <<>>
    /\ i = 1
    /\ scores = <<>>
    /\ curated_images = <<>>
    /\ analysis_results = <<>>
    /\ success_count = 0
    /\ status_queue = <<>>
    /\ backend_calls = [total |-> 0, last |-> <<>>]
    /\ result = NoReturn
    /\ write_returns = <<>>
    /\ gui = [pc |-> "idle", is_processing |-> FALSE, handled |-> <<>>,
              runs |-> 0, other |-> NoThread]

Init ==
    /\ image_dir \in {d \in SeqsUpTo(PipeFileDomain, MaxFiles) : GlobOrdered(d)}
    /\ config \in {c \in Configs(Percents, BOOLEAN, {FALSE}) :
                       /\ Unconstructed(c)
                       /\ c.google_api_key => c.model_type = "gemini"}
    /\ pc = "construct"
    /\ Idle
    /\ FreshDisk(Len(image_dir), {NoRating})

Next ==
    \/ Construct
    \/ Start
    \/ Scan
    \/ ScoreStep
    \/ SortSelect
    \/ CheckCurated
    \/ AnalyzeStep
    \/ BeginWrite
    \/ WriteStep
    \/ Finish

Spec == Init /\ [][Next]_vars

(***************************************************************************)
(* process_directory in sidecar mode over a directory of JPEG, PNG and     *)
(* TIFF files.                                                             *)
(***************************************************************************)
InitSidecars ==
    /\ image_dir \in {d \in SeqsUpTo(MixedFileDomain, MaxFiles) : GlobOrdered(d)}
    /\ config \in {c \in Configs({100}, {FALSE}, {FALSE}) :
                       Unconstructed(c) /\ ~c.google_api_key
                           /\ c.model_type = "ollama"}
    /\ pc = "construct"
    /\ Idle
    /\ FreshDisk(Len(image_dir), {NoRating})

SpecSidecars == InitSidecars /\ [][Next]_vars

(***************************************************************************)
(* Curation alone (test_image_curation_engine calls it directly).          *)
(***************************************************************************)
CuratePercents == {10, 30, 50, 75, 100}

InitCurate ==
    /\ image_dir \in {d \in SeqsUpTo(FileDomain, MaxCurateFiles) : GlobOrdered(d)}
    /\ config \in {[c EXCEPT !.iqa_loaded = engine.iqa_loaded,
                              !.lower_better = engine.lower_better,
                              !.iqa_load = engine.iqa_load] :
                       c \in {x \in Configs(CuratePercents, {FALSE}, {FALSE}) :
                                 Unconstructed(x) /\ ~x.google_api_key
                                     /\ x.model_type = "ollama"},
                       engine \in EngineOutcomes}
    /\ pc = "scan"
    /\ Idle
    /\ FreshDisk(Len(image_dir), {NoRating})

NextCurate ==
    \/ Scan
    \/ ScoreStep
    \/ SortSelect

SpecCurate == InitCurate /\ [][NextCurate]_vars

(***************************************************************************)
(* The two entry points' curation over one directory and configuration:    *)
(* process_directory calls curate_images_by_quality with the configured    *)
(* recursive flag and a queue; process_directory_with_callback calls       *)
(* _curate_with_callback, whose messages carry a level prefix.             *)
(***************************************************************************)
\* a message as the callback variants word it
CallbackMsg(t, k, n) == Msg("[callback] " \o t, k, n)

\* _curate_with_callback, file discovery: rglob whatever the configuration
CallbackScan ==
    /\ pc = "cb_scan"
    /\ image_files' = Discover(Len(image_dir), TRUE)
    /\ IF Len(image_files') = 0
       THEN /\ status_queue' = status_queue \o
                  <<CallbackMsg("iqa_start", 0, 0), CallbackMsg("no_files", 0, 0)>>
            /\ curated_images' = <<>>
            /\ pc' = "curated"
       ELSE /\ status_queue' = status_queue \o
                  <<CallbackMsg("iqa_start", 0, 0),
                    CallbackMsg("found", Len(image_files'), 0)>>
            /\ curated_images' = curated_images
            /\ pc' = "cb_score"
    /\ i' = 1
    /\ scores' = <<>>
    /\ UNCHANGED <<gui, image_dir, config, write_returns, analysis_results, success_count,
                   backend_calls, result, embedded, sidecar, lastWrite>>

\* _curate_with_callback, one iteration of the scoring loop
CallbackScoreStep ==
    /\ pc = "cb_score"
    /\ i <= Len(image_files)
    /\ LET score == ScoreImage(image_dir[image_files[i]], config.iqa_loaded)
       IN scores' = IF score # None
                    THEN Append(scores, [path |-> image_files[i], score |-> score])
                    ELSE scores
    /\ status_queue' = Append(status_queue, CallbackMsg("scoring", i, Len(image_files)))
    /\ i' = i + 1
    /\ UNCHANGED <<gui, image_dir, config, write_returns, pc, image_files, curated_images,
                   analysis_results, success_count, backend_calls, result,
                   embedded, sidecar, lastWrite>>

\* _curate_with_callback after the loop: the same sort and selection
CallbackSortSelect ==
    /\ pc = "cb_score"
    /\ i > Len(image_files)
    /\ IF scores = <<>>
       THEN /\ status_queue' = Append(status_queue, CallbackMsg("none_scored", 0, 0))
            /\ curated_images' = <<>>
            /\ scores' = scores
       ELSE /\ scores' = SortScores(scores, ReverseSort(config))
            /\ curated_images' = TopImages(scores, config)
            /\ status_queue' = status_queue \o
                  <<CallbackMsg("selected", Len(TopImages(scores, config)), 0),
                    CallbackMsg("score_range", 0, 0)>>
    /\ pc' = "curated"
    /\ UNCHANGED <<gui, image_dir, config, write_returns, image_files, i, analysis_results,
                   success_count, backend_calls, result, embedded, sidecar,
                   lastWrite>>

\* files in the directory itself or one level down
EntryFileDomain ==
    {PngFile} \cup [ext : {"jpg"}, metric : MetricVals, heur : {70}, nested : BOOLEAN]

\* the same directories and configurations under either entry point
InitEntry ==
    /\ image_dir \in {d \in SeqsUpTo(EntryFileDomain, MaxCurateFiles) : GlobOrdered(d)}
    /\ config \in {[c EXCEPT !.iqa_loaded = engine.iqa_loaded,
                              !.lower_better = engine.lower_better,
                              !.iqa_load = engine.iqa_load,
                              !.recursive = r] :
                       c \in {x \in Configs(Percents, {FALSE}, {FALSE}) :
                                 Unconstructed(x) /\ ~x.google_api_key
                                     /\ x.model_type = "ollama"},
                       engine \in EngineOutcomes, r \in BOOLEAN}
    /\ pc \in {"scan", "cb_scan"}
    /\ Idle
    /\ FreshDisk(Len(image_dir), {NoRating})

NextEntry ==
    \/ Scan
    \/ ScoreStep
    \/ SortSelect
    \/ CallbackScan
    \/ CallbackScoreStep
    \/ CallbackSortSelect

SpecEntry == InitEntry /\ [][NextEntry]_vars

(***************************************************************************)
(* The writers applied again and again to one image file, as successive    *)
(* runs over the same file do.                                             *)
(***************************************************************************)
PersistScores == {IntScore(n) : n \in 0..11} \cup {StrScore, NullScore, NoScore}

PersistTags ==
    {ListTags(s) : s \in SeqsUpTo({"GALLERY", "Macro"}, MaxTags)}
        \cup {IntListTags, StrTags, NoTags}

\* every score with one ordinary tag list, every tag list with a score below,
\* at and above the 5-star mark
PersistData ==
    {Dict("Thing", "Macro", ListTags(<<"Macro", "Candid">>), s, "critique") :
        s \in PersistScores}
    \cup {Dict("Thing", "Macro", t, s, "critique") :
        t \in PersistTags, s \in {IntScore(3), IntScore(5), IntScore(9)}}

\* process_single_image's writer call, or one iteration of write_metadata_batch
PersistCall ==
    /\ pc = "persist"
    /\ \E d \in PersistData, io_ok \in BOOLEAN :
         WriteMetadata(1, d, config.use_exif, io_ok)
    /\ UNCHANGED <<gui, image_dir, config, write_returns, pc, image_files, i, scores, curated_images,
                   analysis_results, success_count, status_queue, backend_calls,
                   result>>

\* the experimental analyzer's EXIF writer run over the same image file
UnifiedExifCall ==
    /\ pc = "persist"
    /\ config.use_exif
    /\ \E d \in PersistData, io_ok \in BOOLEAN :
         ApplyWrite(1, d, "write_exif_data", UnifiedExifWrite(d, embedded[1].rating),
                    io_ok, ImagePath(1))
    /\ UNCHANGED <<gui, image_dir, config, write_returns, pc, image_files, i, scores, curated_images,
                   analysis_results, success_count, status_queue, backend_calls,
                   result>>

\* the Classifications handed to the web application's writer: a low, a
\* 5-star and an ill-typed score
WebData ==
    {Dict("Thing", "Macro", ListTags(<<"Macro", "Candid">>), s, "critique") :
        s \in {IntScore(3), IntScore(9), StrScore}}

\* the web application's EXIF writer run over the same image file, while the
\* text fields it extends stay within MaxPieces
WebExifCall ==
    /\ pc = "persist"
    /\ config.use_exif
    /\ Len(embedded[1].description) < MaxPieces
    /\ Len(embedded[1].comment) < MaxPieces
    /\ \E d \in WebData, io_ok \in BOOLEAN, handling \in HandlingModes :
         ApplyWrite(1, d,
                    IF handling = "append" THEN "web_write_exif_data_append"
                    ELSE "web_write_exif_data_replace",
                    WebExifWrite(d, embedded[1], handling), io_ok, ImagePath(1))
    /\ UNCHANGED <<gui, image_dir, config, write_returns, pc, image_files, i, scores,
                   curated_images, analysis_results, success_count, status_queue,
                   backend_calls, result>>

\* the experimental analyzer's sidecar writer run over the same image file
UnifiedXmpCall ==
    /\ pc = "persist"
    /\ ~config.use_exif
    /\ \E d \in PersistData, io_ok \in BOOLEAN :
         ApplyWrite(1, d, "unified_write_xmp_sidecar", UnifiedXmpWrite(d), io_ok,
                    UnifiedXmpPath(ImagePath(1)))
    /\ UNCHANGED <<gui, image_dir, config, write_returns, pc, image_files, i, scores, curated_images,
                   analysis_results, success_count, status_queue, backend_calls,
                   result>>

InitPersist ==
    /\ image_dir = <<[ext |-> "jpg", metric |-> 10, heur |-> 70, nested |-> FALSE]>>
    /\ config \in {c \in Configs({100}, BOOLEAN, {TRUE}) :
                       ~c.llava /\ ~c.gemini /\ ~c.lower_better
                           /\ ~c.google_api_key /\ c.model_type = "ollama"}
    /\ pc = "persist"
    /\ Idle
    /\ FreshDisk(1, 0..5)
    /\ config.use_exif \/ embedded[1].rating = NoRating

NextPersist ==
    \/ PersistCall
    \/ UnifiedExifCall
    \/ UnifiedXmpCall
    \/ WebExifCall

SpecPersist == InitPersist /\ [][NextPersist]_vars

(***************************************************************************)
(* analyze_image applied again and again to one image, as                  *)
(* process_single_image does, over a wider range of backend answers.       *)
(***************************************************************************)
\* DEFAULT_CATEGORIES and DEFAULT_SUB_CATEGORIES of the prompt
Categories == {"People", "Place", "Thing"}

SubCategories ==
    {"Portrait", "Group-Shot", "Couple", "Family", "Children", "Baby",
     "Senior-Citizen", "Pet", "Wildlife", "Bird", "Automotive", "Architecture",
     "Interior", "Product", "Food", "Flowers", "Macro", "Landscape", "Urban",
     "Beach", "Forest", "Event"}

\* the JSON objects a backend answers: every category, score and critique
\* with an ordinary subcategory and tag list, every subcategory and tag list
\* with an ordinary category
AnalyzeDicts ==
    {Dict(c, "Macro", ListTags(<<"Macro", "Candid">>), s, cr) :
        c \in {"Thing", "Animal", Absent},
        s \in {IntScore(4), IntScore(9), NoScore},
        cr \in {"critique", Absent}}
    \cup {Dict("Thing", sc, t, IntScore(9), "critique") :
        sc \in {"Macro", "Selfie", Absent},
        t \in {ListTags(<<"Macro", "Candid">>), ListTags(<<"Macro">>),
               ListTags(<<"Macro", "Macro">>), NoTags}}

AnalyzeResponses == {Unreachable, NotJson} \cup {JsonDict(d) : d \in AnalyzeDicts}

\* a persona key that is none of PROMPT_PROFILES
UnknownProfile == "wedding_planner"

AnalyzeConfigs ==
    {[c EXCEPT !.enable_gallery_critique = g, !.prompt_profile = p] :
        c \in {x \in Configs({100}, {FALSE}, {FALSE}) : x.google_api_key = x.gemini},
        g \in BOOLEAN, p \in PromptProfiles \cup {UnknownProfile}}

\* process_single_image: analysis_data = analyze_image(image_path) and the
\* result structure built from it
AnalyzeCall ==
    /\ pc = "analysis"
    /\ \E rl \in AnalyzeResponses, rg \in AnalyzeResponses :
         /\ backend_calls' =
                [total |-> Len(BackendsCalled(config, rl, rg, 1)),
                 last |-> BackendsCalled(config, rl, rg, 1)]
         /\ analysis_results' =
                IF AnalyzeImage(config, rl, rg).some
                THEN <<[file_path |-> 1, analysis |-> AnalyzeImage(config, rl, rg).data]>>
                ELSE <<>>
    /\ UNCHANGED <<gui, image_dir, config, pc, image_files, i, scores,
                   curated_images, success_count, status_queue, result, embedded,
                   sidecar, lastWrite, write_returns>>

\* the experimental analyzer's analyze_image on the same image: None leaves
\* no result
UnifiedAnalyzeCall ==
    /\ pc = "analysis"
    /\ \E r \in AnalyzeResponses :
         /\ backend_calls' =
                [total |-> 1,
                 last |-> <<BackendCall(1,
                                IF config.model_type = "gemini" THEN "unified_gemini"
                                ELSE "unified_llava",
                                [persona |-> "none",
                                 critique |-> config.enable_gallery_critique],
                                r, UnifiedAnalyzeImage(config, r))>>]
         /\ analysis_results' =
                IF UnifiedAnalyzeImage(config, r).some
                THEN <<[file_path |-> 1, analysis |-> UnifiedAnalyzeImage(config, r).data]>>
                ELSE <<>>
    /\ UNCHANGED <<gui, image_dir, config, pc, image_files, i, scores,
                   curated_images, success_count, status_queue, result, embedded,
                   sidecar, lastWrite, write_returns>>

InitAnalyze ==
    /\ image_dir = <<[ext |-> "jpg", metric |-> 10, heur |-> 70, nested |-> FALSE]>>
    /\ config \in AnalyzeConfigs
    /\ pc = "analysis"
    /\ Idle
    /\ FreshDisk(1, {NoRating})

NextAnalyze ==
    \/ AnalyzeCall
    \/ UnifiedAnalyzeCall

SpecAnalyze == InitAnalyze /\ [][NextAnalyze]_vars

(***************************************************************************)
(* ai_image_analyzer_gui.py: start_analysis runs the pipeline in a thread  *)
(* that reports through status_queue; the main thread polls the queue      *)
(* every 100 ms.  Here status_queue is the queue itself: process_queue     *)
(* takes items off its head.                                               *)
(***************************************************************************)
\* the items run_pipeline puts after process_directory
Sentinel == Msg("PIPELINE_COMPLETE", 0, 0)
Payload(r) == Msg("results", r.images_analyzed, r.metadata_written)
ErrorText == Msg("ERROR:", 0, 0)
ErrorSentinel == Msg("PIPELINE_ERROR", 0, 0)

Handled(how, item) == [how |-> how, item |-> item]

pipeVars ==
    <<image_dir, config, image_files, i, scores, curated_images, analysis_results,
      success_count, backend_calls, result, embedded, sidecar, lastWrite,
      write_returns>>

\* a thread that was started and has not left run_pipeline
Alive(at) == at \notin {"not_started", "thread_exit"}

\* the variables of the pipeline thread the model is stepping
Current ==
    [config |-> config, pc |-> pc, image_files |-> image_files, i |-> i,
     scores |-> scores, curated_images |-> curated_images,
     analysis_results |-> analysis_results, success_count |-> success_count,
     backend_calls |-> backend_calls, result |-> result,
     write_returns |-> write_returns]

\* the thread t becomes the one the model steps
Resume(t) ==
    /\ config' = t.config
    /\ pc' = t.pc
    /\ image_files' = t.image_files
    /\ i' = t.i
    /\ scores' = t.scores
    /\ curated_images' = t.curated_images
    /\ analysis_results' = t.analysis_results
    /\ success_count' = t.success_count
    /\ backend_calls' = t.backend_calls
    /\ result' = t.result
    /\ write_returns' = t.write_returns

\* pipeline_config as start_analysis builds it: no engine constructed yet
PipelineConfig ==
    [config EXCEPT !.iqa_loaded = FALSE, !.lower_better = FALSE,
                   !.iqa_load = "none", !.llava = FALSE, !.gemini = FALSE]

\* start_analysis: past its is_processing check the log is cleared,
\* is_processing set and a new thread started, whatever an earlier thread
\* is doing.  At most two threads are kept: the new one takes the place of
\* one that has left run_pipeline, else the one running is set aside
StartAnalysis ==
    /\ ~gui.is_processing
    /\ gui.runs < MaxRuns
    /\ ~Alive(pc) \/ ~Alive(gui.other.pc)
    /\ gui' = [gui EXCEPT !.is_processing = TRUE, !.handled = <<>>,
                          !.runs = @ + 1,
                          !.other = IF Alive(pc) THEN Current ELSE @]
    /\ Resume(Thread(PipelineConfig, "construct"))
    /\ UNCHANGED <<image_dir, status_queue, embedded, sidecar, lastWrite>>

\* stop_processing: is_processing is cleared and the buttons switched; the
\* thread is not told
StopProcessing ==
    /\ gui.is_processing
    /\ gui' = [gui EXCEPT !.is_processing = FALSE]
    /\ UNCHANGED <<pipeVars, pc, status_queue>>

\* the interpreter switches between the two pipeline threads
SwitchThread ==
    /\ Alive(pc)
    /\ Alive(gui.other.pc)
    /\ gui' = [gui EXCEPT !.other = Current]
    /\ Resume(gui.other)
    /\ UNCHANGED <<image_dir, status_queue, embedded, sidecar, lastWrite>>

\* run_pipeline: status_queue.put("PIPELINE_COMPLETE")
PutComplete ==
    /\ pc = "done"
    /\ status_queue' = Append(status_queue, Sentinel)
    /\ pc' = "put_results"
    /\ UNCHANGED <<pipeVars, gui>>

\* run_pipeline: status_queue.put(results)
PutResults ==
    /\ pc = "put_results"
    /\ status_queue' = Append(status_queue, Payload(result))
    /\ pc' = "thread_exit"
    /\ UNCHANGED <<pipeVars, gui>>

\* run_pipeline, except branch: status_queue.put(f"ERROR: {e}")
PutError ==
    /\ pc = "raised"
    /\ status_queue' = Append(status_queue, ErrorText)
    /\ pc' = "put_pipeline_error"
    /\ UNCHANGED <<pipeVars, gui>>

\* run_pipeline, except branch: status_queue.put("PIPELINE_ERROR")
PutPipelineError ==
    /\ pc = "put_pipeline_error"
    /\ status_queue' = Append(status_queue, ErrorSentinel)
    /\ pc' = "thread_exit"
    /\ UNCHANGED <<pipeVars, gui>>

\* schedule_queue_check: the timer fires and process_queue is entered
ProcessQueue ==
    /\ gui.pc = "idle"
    /\ gui' = [gui EXCEPT !.pc = "get"]
    /\ UNCHANGED <<pipeVars, pc, status_queue>>

\* process_queue: message = get_nowait() and its dispatch; queue.Empty ends
\* the poll
GetMessage ==
    /\ gui.pc = "get"
    /\ IF status_queue = <<>>
       THEN /\ gui' = [gui EXCEPT !.pc = "idle"]
            /\ status_queue' = status_queue
       ELSE LET message == Head(status_queue)
            IN /\ status_queue' = Tail(status_queue)
               /\ gui' =
                     IF message = Sentinel
                     THEN [gui EXCEPT !.pc = "get_results",
                               !.handled = Append(@, Handled("await_results", message))]
                     ELSE IF message = ErrorSentinel
                     THEN [gui EXCEPT !.is_processing = FALSE,
                               !.handled = Append(@, Handled("handle_error", message))]
                     ELSE IF message.t = "ERROR:"
                     THEN [gui EXCEPT !.handled = Append(@, Handled("log_error", message))]
                     ELSE [gui EXCEPT !.handled = Append(@, Handled("log", message))]
    /\ UNCHANGED <<pipeVars, pc>>

\* process_queue after the sentinel: results = get_nowait() and
\* handle_completion(results); queue.Empty here leaves through the outer
\* except, ending the poll
GetResults ==
    /\ gui.pc = "get_results"
    /\ IF status_queue = <<>>
       THEN /\ gui' = [gui EXCEPT !.pc = "idle"]
            /\ status_queue' = status_queue
       ELSE /\ status_queue' = Tail(status_queue)
            /\ gui' = [gui EXCEPT !.pc = "get", !.is_processing = FALSE,
                            !.handled = Append(@, Handled("handle_completion",
                                                          Head(status_queue)))]
    /\ UNCHANGED <<pipeVars, pc>>

\* a directory of at most one readable JPEG, analyzed in sidecar mode
InitGui ==
    /\ image_dir \in SeqsUpTo({[ext |-> "jpg", metric |-> 10, heur |-> 70, nested |-> FALSE]}, 1)
    /\ config \in {c \in Configs({100}, {FALSE}, {FALSE}) :
                       Unconstructed(c) /\ ~c.google_api_key
                           /\ c.model_type = "ollama"}
    /\ pc = "not_started"
    /\ Idle
    /\ FreshDisk(Len(image_dir), {NoRating})

NextGui ==
    \/ StartAnalysis
    \/ Next
    \/ PutComplete
    \/ PutResults
    \/ PutError
    \/ PutPipelineError
    \/ ProcessQueue
    \/ GetMessage
    \/ GetResults

SpecGui == InitGui /\ [][NextGui]_vars

\* the steps of the pipeline thread
ThreadStep ==
    \/ Next
    \/ PutComplete
    \/ PutResults
    \/ PutError
    \/ PutPipelineError

\* the steps of the main thread's poll, which root.after rearms every 100 ms
PollStep ==
    \/ ProcessQueue
    \/ GetMessage
    \/ GetResults

\* the pipeline thread is scheduled as long as it can step, and the poll
\* keeps running; whether the user presses Start is left open
SpecGuiFair == SpecGui /\ WF_vars(ThreadStep) /\ WF_vars(PollStep)

\* the Start and Stop buttons over an empty directory, where each thread
\* constructs the pipeline, scans, finds nothing and reports
InitButtons ==
    /\ InitGui
    /\ image_dir = <<>>

NextButtons ==
    \/ StartAnalysis
    \/ StopProcessing
    \/ SwitchThread
    \/ Construct
    \/ Start
    \/ Scan
    \/ CheckCurated
    \/ PutComplete
    \/ PutResults
    \/ ProcessQueue
    \/ GetMessage
    \/ GetResults

SpecButtons == InitButtons /\ [][NextButtons]_vars

(***************************************************************************)
(* Claims.                                                                 *)
(***************************************************************************)
Count(x, tags) == Cardinality({j \in 1..Len(tags.v) : tags.v[j] = x})

\* clamp(ceil(s/2), 1, 5)
StarOf(s) == Max(1, Min(5, CeilHalf(s)))

Wrote == lastWrite.writer # "none" /\ lastWrite.ok

EmbeddedWriters == {"write_embedded_metadata", "write_exif_data"}

\* C1 (SpecPersist): an embedded write over an existing rating of 4 or 5
\* never leaves a lower rating in the file.
C1_RatingNeverLowered ==
    (Wrote /\ lastWrite.writer \in EmbeddedWriters /\ lastWrite.before \in {4, 5})
        => embedded[lastWrite.path].rating >= lastWrite.before

\* C2 (SpecPersist): a write whose final rating is 5 hands over a tag list
\* holding "GALLERY" exactly once.
C2_GalleryExactlyOnce ==
    (Wrote /\ lastWrite.rating = 5) => Count("GALLERY", lastWrite.tags) = 1

\* C3 (SpecPersist): for an integer score s in 1..10 the rating written, in
\* either mode, is clamp(ceil(s/2), 1, 5).
C3_StarDerivation ==
    (Wrote /\ lastWrite.data.score.kind = "int" /\ lastWrite.data.score.v \in 1..10)
        => lastWrite.rating = StarOf(lastWrite.data.score.v)

\* the call just made had no backend to ask, or every backend it asked was
\* unreachable or answered text that is not JSON
BackendsFailed ==
    \A j \in 1..Len(backend_calls.last) :
        backend_calls.last[j].kind \in {"unreachable", "notjson"}

\* analyze_image has been called in this run, and process_directory is
\* still in the analysis loop or was left by an exception
CallMade == pc = "raised" \/ (pc = "analyze" /\ i >= 2)

\* the images whose analysis loop iteration is over
Analyzed ==
    IF pc \in {"analyze", "raised"} THEN i - 1
    ELSE IF pc \in {"write", "done"} THEN Len(curated_images)
    ELSE 0

HasResult(path) ==
    \E j \in 1..Len(analysis_results) : analysis_results[j].file_path = path

\* C4 (Spec): when no backend is configured, or every backend asked is
\* unreachable or answers unparsable text, analyze_image returns the
\* placeholder (category, subcategory, tags and score present) and nothing
\* is raised; a run over a non-empty curated list with no backend available
\* ends with success and every curated image analyzed.
C4_DegradedPlaceholder ==
    /\ (CallMade /\ BackendsFailed)
          => /\ pc # "raised"
             /\ i >= 2
             /\ analysis_results # <<>>
             /\ LET r == analysis_results[Len(analysis_results)]
                IN /\ r.file_path = curated_images[i - 1].path
                   /\ r.analysis = [Placeholder EXCEPT
                                        !.quality_score = curated_images[i - 1].score]
                   /\ r.analysis.category # Absent
                   /\ r.analysis.subcategory # Absent
                   /\ r.analysis.tags.kind = "list"
                   /\ r.analysis.score.kind = "int"
    /\ (~config.llava /\ ~config.gemini)
          => /\ pc # "raised"
             /\ \A j \in 1..Analyzed : HasResult(curated_images[j].path)
             /\ (pc = "done" /\ curated_images # <<>>)
                   => /\ result.returned /\ result.success
                      /\ result.images_analyzed = Len(curated_images)
                      /\ result.images_analyzed >= 1

\* C4 witness: both backends were asked for the second image of a run, one
\* unreachable and one answering unparsable text, and the run went on.
C4_Witness ==
    /\ pc = "analyze"
    /\ i = 3
    /\ Len(backend_calls.last) = 2
    /\ backend_calls.last[1].kind = "unreachable"
    /\ backend_calls.last[2].kind = "notjson"
    /\ Len(analysis_results) = 2

\* C5 (Spec): whatever a backend answers, process_directory does not raise.
C5_NeverRaises == pc # "raised"

Scored == {scores[j] : j \in 1..Len(scores)}
Curated == {curated_images[j] : j \in 1..Len(curated_images)}

DistinctScores ==
    \A j, k \in 1..Len(scores) : j # k => scores[j].score # scores[k].score

\* the ordering of the active metric: the heuristic is higher-is-better
LowerIsBetter == config.iqa_loaded /\ config.lower_better
Better(x, y) == IF LowerIsBetter THEN x.score < y.score ELSE x.score > y.score

\* the curated list is the k best of the scored images, best first
IsTop(k) ==
    /\ Len(curated_images) = k
    /\ Cardinality(Curated) = k
    /\ Curated \subseteq Scored
    /\ \A a \in Curated, b \in Scored \ Curated : Better(a, b)
    /\ \A j \in 1..(k - 1) : Better(curated_images[j], curated_images[j + 1])

\* ceil(n * p / 100) and floor(n * p / 100)
CeilFrac(n, p) == (n * p + 99) \div 100
FloorFrac(n, p) == (n * p) \div 100

\* C6, as claimed (SpecCurate): with distinct scores the curated list is the
\* top ceil(N*f) of the N scored images, and is not empty.
C6_TopCeil ==
    (pc = "curated" /\ scores # <<>> /\ DistinctScores)
        => /\ IsTop(CeilFrac(Len(scores), config.top_percent))
           /\ curated_images # <<>>

\* C6, amended (SpecCurate): with distinct scores the curated list is the
\* top max(1, floor(N*f)) of the N scored images under the metric's
\* ordering, and is not empty.
C6_TopFloor ==
    (pc = "curated" /\ scores # <<>> /\ DistinctScores)
        => /\ IsTop(Max(1, FloorFrac(Len(scores), config.top_percent)))
           /\ curated_images # <<>>

\* C6 witness: three distinctly scored images under a lower-is-better
\* metric, of which the best two were returned where ceil asks for three.
C6_Witness ==
    /\ pc = "curated"
    /\ Len(scores) = 3
    /\ DistinctScores
    /\ LowerIsBetter
    /\ config.top_percent = 75
    /\ Len(curated_images) = 2

\* C7 (SpecCurate): with S >= 1 scored images curation returns exactly
\* max(1, floor(S * top_fraction)) of them, a prefix of the sorted list, never
\* more than S; 10 images at 0.3 give 3.
C7_SelectionSize ==
    /\ (pc = "curated" /\ Len(scores) >= 1)
          => /\ Len(curated_images) = Max(1, FloorFrac(Len(scores), config.top_percent))
             /\ Len(curated_images) <= Len(scores)
             /\ curated_images = SubSeq(scores, 1, Len(curated_images))
             /\ \A j \in 1..(Len(scores) - 1) : ~Better(scores[j + 1], scores[j])
    /\ NumToSelect(10, 30) = 3

\* C7 witness: three scored images at a fraction whose floor is 0, one kept.
C7_Witness ==
    /\ pc = "curated"
    /\ Len(scores) = 3
    /\ config.top_percent = 10
    /\ Len(curated_images) = 1

\* C8 (Spec): a successful run reports as total_images_found the number of
\* supported files found, and metadata_written <= images_analyzed <=
\* total_images_found.
C8_TotalImagesFound ==
    (pc = "done" /\ result.success)
        => /\ result.total_images_found = Len(image_files)
           /\ result.metadata_written <= result.images_analyzed
           /\ result.images_analyzed <= result.total_images_found

\* scoring file f fails: the heuristic raises on it, and so does the metric
\* when one is loaded
ScoringFails(f) ==
    /\ f.ext # "png"
    /\ f.heur = Raises
    /\ config.iqa_loaded => f.metric = Raises

CuratedPaths == {curated_images[j].path : j \in 1..Len(curated_images)}
ScoredPaths == {scores[j].path : j \in 1..Len(scores)}

\* C9 (SpecCurate): a file whose scoring fails is recorded as null, so it is
\* neither scored nor curated, and every other non-PNG file is scored.
C9_FailureExcluded ==
    pc = "curated"
        => \A k \in 1..Len(image_files) :
              LET f == image_dir[image_files[k]]
              IN IF ScoringFails(f)
                 THEN image_files[k] \notin ScoredPaths \cup CuratedPaths
                 ELSE f.ext # "png" => image_files[k] \in ScoredPaths

\* curation is over and scored no image
NothingToProcess == pc \notin {"construct", "start", "scan", "score"} /\ scores = <<>>

AnalysisOrPersistenceMessages ==
    {"ai_start", "analyzing", "analyzed", "writing_start", "writing",
     "writing_done", "complete", "processed", "used_iqa", "used_ai"}

\* C10 (Spec): when no supported image is found or none is scored, the run
\* returns {success: false, error: "No images passed quality assessment"}
\* without raising, calls no backend, writes no metadata and emits no
\* analysis or persistence message.
C10_NothingToProcess ==
    NothingToProcess
        => /\ pc \in {"curated", "done"}
           /\ curated_images = <<>>
           /\ backend_calls.total = 0
           /\ analysis_results = <<>>
           /\ lastWrite = NoWrite
           /\ \A k \in 1..Len(image_dir) :
                 sidecar[k] = NoSidecar /\ embedded[k] = NoRecord
           /\ \A j \in 1..Len(status_queue) :
                 status_queue[j].t \notin AnalysisOrPersistenceMessages
           /\ pc = "done"
                 => result = [NoReturn EXCEPT !.returned = TRUE,
                                  !.error = "No images passed quality assessment"]

\* C10 witness: a directory of two PNG files, none scored, the call returned.
C10_Witness ==
    /\ pc = "done"
    /\ Len(image_dir) = 2
    /\ scores = <<>>
    /\ result.returned
    /\ Len(status_queue) >= 6

SidecarWriters == {"write_xmp_sidecar", "unified_write_xmp_sidecar"}

\* C11 (SpecPersist): every sidecar writer writes the image path with its
\* extension replaced by xmp (photo.jpg to photo.xmp), never with xmp put
\* after the original extension (photo.jpg.xmp).
C11_XmpPathReplacesExtension ==
    (Wrote /\ lastWrite.writer \in SidecarWriters)
        => /\ lastWrite.target = <<Stems[lastWrite.path], "xmp">>
           /\ lastWrite.target # ImagePath(lastWrite.path) \o <<"xmp">>

\* the writer calls of this batch that returned True
WritesReturnedTrue == Cardinality({j \in 1..Len(write_returns) : write_returns[j]})

\* C12 (Spec): a writer call that fails returns False and raises nothing,
\* the batch goes on to every remaining analyzed image, and the result's
\* metadata_written is the number of writer calls that returned True.
C12_WriteFailureIsolated ==
    /\ pc = "write"
          => /\ Len(write_returns) = i - 1
             /\ success_count = WritesReturnedTrue
             /\ (i >= 2 /\ ~lastWrite.ok) => ~write_returns[i - 1]
    /\ (pc = "done" /\ result.success)
          => /\ Len(write_returns) = Len(analysis_results)
             /\ result.metadata_written = WritesReturnedTrue
             /\ \A j \in 1..Len(analysis_results) :
                   \E m \in 1..Len(status_queue) :
                       status_queue[m] = Msg("writing", j, Len(analysis_results))

\* C12 witness: a batch of two whose first write failed and whose second
\* went through, reported as one file written.
C12_Witness ==
    /\ pc = "done"
    /\ write_returns = <<FALSE, TRUE>>
    /\ result.metadata_written = 1

\* C13 (Spec): a pipeline configured for the Gemini backend without an API
\* key never gets past construction: the constructor raises before any
\* scan, scoring or analysis.
C13_ConfigErrorAtConstruction ==
    (config.model_type = "gemini" /\ ~config.google_api_key)
        => pc \in {"construct", "config_error"}

\* the metadata of an image file no writer has touched
Untouched == NoRecord

\* C14 (Spec): in a sidecar-mode run only write_xmp_sidecar is invoked, its
\* target is no image file of the directory and every image file keeps its
\* metadata; in an embedded-mode run only write_embedded_metadata is
\* invoked, on the image file itself, and no sidecar exists.
C14_ModeExclusive ==
    /\ ~config.use_exif
          => /\ lastWrite.writer \in {"none", "write_xmp_sidecar"}
             /\ \A k \in 1..Len(image_dir) :
                   /\ embedded[k] = Untouched
                   /\ lastWrite.target # ImagePath(k)
    /\ config.use_exif
          => /\ lastWrite.writer \in {"none", "write_embedded_metadata"}
             /\ lastWrite.writer # "none"
                   => lastWrite.target = ImagePath(lastWrite.path)
             /\ \A k \in 1..Len(image_dir) : sidecar[k] = NoSidecar

\* C14 witness: a sidecar-mode run that wrote the sidecars of two images.
C14_Witness ==
    /\ pc = "done"
    /\ ~config.use_exif
    /\ write_returns = <<TRUE, TRUE>>
    /\ sidecar[1].present /\ sidecar[2].present
    /\ sidecar[2].name = <<"IMG_2", "xmp">>
    /\ lastWrite.target = <<Stems[lastWrite.path], "xmp">>

\* the last two writer calls were the same writer given the same
\* Classification, and both wrote
PersistedTwice == Wrote /\ lastWrite.repeated

\* C15 (SpecPersist): persisting the same Classification to the same target
\* a second time leaves the record (rating, tags, description, comment) the
\* first persist left.
C15_PersistIdempotent ==
    PersistedTwice => ~lastWrite.changed

\* the GUI took the completion sentinel off the queue as its j-th item
TookSentinel(j) == gui.handled[j].item = Sentinel

\* C16 (SpecGui): whenever process_queue takes PIPELINE_COMPLETE off the
\* queue, the next item it takes is the results payload and it goes to
\* handle_completion; the payload is never logged as an ordinary message.
C16_SentinelThenPayload ==
    /\ \A j \in 1..Len(gui.handled) :
          /\ gui.handled[j].item.t = "results"
                => gui.handled[j].how = "handle_completion"
          /\ (TookSentinel(j) /\ j < Len(gui.handled))
                => /\ gui.handled[j + 1].how = "handle_completion"
                   /\ gui.handled[j + 1].item.t = "results"
    /\ (gui.handled # <<>> /\ TookSentinel(Len(gui.handled)))
          => gui.pc = "get_results"

\* analyze_image of the pipeline has just returned `Returned`
CoreReturned ==
    /\ pc = "analysis"
    /\ analysis_results # <<>>
    /\ \A j \in 1..Len(backend_calls.last) :
          backend_calls.last[j].backend \in {"llava", "gemini"}

Returned == analysis_results[1].analysis

NoDuplicates(t) == \A j, k \in 1..Len(t) : j # k => t[j] # t[k]

\* C17 (SpecAnalyze): every Classification analyze_image returns that is
\* not the placeholder has a category of the fixed set, a subcategory of
\* the vocabulary and a list of 2 to 5 distinct tags.
C17_SchemaValid ==
    (CoreReturned /\ Returned # Placeholder)
        => /\ Returned.category \in Categories
           /\ Returned.subcategory \in SubCategories
           /\ Returned.tags.kind = "list"
           /\ Len(Returned.tags.v) \in 2..5
           /\ NoDuplicates(Returned.tags.v)

\* C18 (SpecAnalyze): with gallery critique disabled, when the accepted
\* answer carried a critique the returned Classification keeps it exactly
\* when its score is at or below the critique threshold.
C18_CritiquePostProcessed ==
    (pc = "analysis" /\ analysis_results # <<>> /\ ~config.enable_gallery_critique)
        => \A j \in 1..Len(backend_calls.last) :
              (/\ backend_calls.last[j].accepted
               /\ backend_calls.last[j].critique # Absent
               /\ Returned.score.kind = "int")
                  => (Returned.critique # Absent
                         <=> Returned.score.v <= CritiqueThreshold)

\* C19 (SpecAnalyze): the prompt sent to each backend carries the persona
\* of the configuration's prompt_profile, an unknown key giving the art
\* critic.
C19_PersonaDeterminesPrompt ==
    CoreReturned
        => \A j \in 1..Len(backend_calls.last) :
              backend_calls.last[j].prompt.persona =
                  GetAnalysisPrompt(config, config.prompt_profile).persona

\* the backends analyze_image asked, in order
Asked == [j \in 1..Len(backend_calls.last) |-> backend_calls.last[j].backend]

\* C20 (SpecAnalyze): analyze_image asks LLaVA first and Gemini second,
\* each only if configured and Gemini only if LLaVA gave no accepted
\* result; an accepted result ends the calls and is what is returned; with
\* none accepted the placeholder is returned.
C20_BackendPriority ==
    CoreReturned
        => /\ Asked \in {<<>>, <<"llava">>, <<"gemini">>, <<"llava", "gemini">>}
           /\ (Len(Asked) >= 1 /\ Asked[1] = "llava") <=> config.llava
           /\ (Asked # <<>> /\ Asked[Len(Asked)] = "gemini")
                 <=> (config.gemini
                         /\ ~(config.llava /\ backend_calls.last[1].accepted))
           /\ \A j \in 1..Len(Asked) :
                 backend_calls.last[j].accepted
                    => /\ j = Len(Asked)
                       /\ Returned = backend_calls.last[j].result.data
           /\ (\A j \in 1..Len(Asked) : ~backend_calls.last[j].accepted)
                 => Returned = Placeholder

\* C20 witness: LLaVA answered an object without a category, Gemini was
\* asked next and its answer was returned.
C20_Witness ==
    /\ CoreReturned
    /\ Asked = <<"llava", "gemini">>
    /\ backend_calls.last[1].kind = "dict"
    /\ ~backend_calls.last[1].accepted
    /\ backend_calls.last[2].accepted
    /\ Returned = backend_calls.last[2].result.data
    /\ Returned # Placeholder


\* the JSON object a recorded backend call answered: Returned when the call
\* was accepted
Answered(j) == backend_calls.last[j].result.data

\* C21 (SpecAnalyze): every result analyze_image accepts from a backend has
\* category, subcategory, tags and score, and critique in critique mode; an
\* answer missing one of them is that backend's failure.
C21_RequiredFieldsValidated ==
    CoreReturned
        => \A j \in 1..Len(backend_calls.last) :
              backend_calls.last[j].accepted
                 => RequiredKeysPresent(Answered(j), config.enable_gallery_critique)


\* the scored image was scored by the heuristic fallback: no metric is
\* loaded, or the metric raised on the file
ScoredByHeuristic(x) == ~config.iqa_loaded \/ image_dir[x.path].metric = Raises

\* x is of better quality than y on the scale both were scored on: lower or
\* higher as the metric has it for two metric scores, higher for two
\* heuristic scores
BetterQuality(x, y) ==
    IF ScoredByHeuristic(x) /\ ScoredByHeuristic(y) THEN x.score > y.score
    ELSE IF ~ScoredByHeuristic(x) /\ ~ScoredByHeuristic(y) THEN Better(x, y)
    ELSE FALSE

\* C22 (SpecCurate): the curated list is ascending by score under a
\* lower-is-better metric and descending otherwise, and in every run, mixed
\* ones included, no scored image is of better quality than element 0.
C22_BestFirst ==
    (pc = "curated" /\ curated_images # <<>>)
        => /\ \A j \in 1..(Len(curated_images) - 1) :
                 IF LowerIsBetter
                 THEN curated_images[j].score <= curated_images[j + 1].score
                 ELSE curated_images[j].score >= curated_images[j + 1].score
           /\ \A x \in Scored : ~BetterQuality(x, curated_images[1])


\* curation sorted a non-empty list of scores
Sorted == pc = "curated" /\ scores # <<>>

\* every score is the heuristic's and the list is sorted best first under
\* higher-is-better
HeuristicHigherBetter ==
    /\ \A j \in 1..Len(scores) :
          scores[j].score = FallbackQualityScore(image_dir[scores[j].path])
    /\ \A j \in 1..(Len(scores) - 1) : scores[j].score >= scores[j + 1].score

Stage ==
    IF pc \in {"construct", "start", "scan"} THEN 1
    ELSE IF pc \in {"score", "curated"} THEN 2
    ELSE IF pc \in {"analyze", "raised"} THEN 3
    ELSE IF pc = "write" THEN 4
    ELSE 5

Emitted(t) == \E m \in 1..Len(status_queue) : status_queue[m].t = t

\* every enumerated file went through the scoring loop and the curated list
\* is the selected prefix of the sorted scores
ScoredAndSelected ==
    /\ Len(image_files) = Len(image_dir)
    /\ \A k \in 1..Len(image_files) :
          /\ \E m \in 1..Len(status_queue) :
                status_queue[m] = Msg("scoring", k, Len(image_files))
          /\ image_dir[image_files[k]].ext # "png" => image_files[k] \in ScoredPaths
    /\ curated_images = SubSeq(scores, 1, NumToSelect(Len(scores), config.top_percent))

\* C24 (Spec): the stages of a run occur in the order Scanning, Curating,
\* Analyzing, Persisting, Done, none revisited or skipped but for Done
\* entered from Curating, which happens exactly when curation returned an
\* empty list; no image is analyzed before every enumerated image was scored
\* and the top fraction selected, and no metadata is written before the
\* analysis stage was entered.
C24_StageSequencing ==
    /\ [](/\ (backend_calls.total > 0 \/ Emitted("analyzing"))
                => (Stage >= 3 /\ ScoredAndSelected)
          /\ (lastWrite # NoWrite \/ Emitted("writing"))
                => (Stage >= 4 /\ Emitted("ai_start")))
    /\ [][/\ Stage' >= Stage
          /\ Stage' # Stage
                => \/ Stage' = Stage + 1
                   \/ Stage = 2 /\ Stage' = 5
          /\ Stage = 2
                => (Stage' = 5 <=> (pc = "curated" /\ curated_images = <<>>))
          /\ (Stage = 2 /\ Stage' = 3) => curated_images # <<>>]_vars

\* C24 witness: a run over two files that analyzed both, wrote both and
\* returned, every stage's messages on the queue.
C24_Witness ==
    /\ Stage = 5
    /\ result.success
    /\ Len(image_files) = 2
    /\ Len(curated_images) = 2
    /\ Len(write_returns) = 2
    /\ Emitted("scoring") /\ Emitted("analyzing") /\ Emitted("writing")


IsAnalyzing(m) == m.t = "analyzing"
IsWriting(m) == m.t = "writing"

\* the 'Analyzing i/N' and 'Writing metadata i/N' messages put so far, in
\* the order they were put
AnalyzingMessages == SelectSeq(status_queue, IsAnalyzing)
WritingMessages == SelectSeq(status_queue, IsWriting)

\* the position at which message m stands on the queue
QueuePosition(m) == CHOOSE p \in 1..Len(status_queue) : status_queue[p] = m

\* C25 (Spec): the curated images are analyzed in the order of the curated
\* list and their metadata is written in that order; the 'Analyzing i/N'
\* and 'Writing metadata i/N' messages are put in that order, each before
\* the operation on image i, which is the i-th of the curated list.
C25_PerImageOrdering ==
    /\ [](/\ \A j \in 1..Len(AnalyzingMessages) :
                AnalyzingMessages[j] = Msg("analyzing", j, Len(curated_images))
          /\ \A j \in 1..Len(WritingMessages) :
                WritingMessages[j] = Msg("writing", j, Len(curated_images))
          /\ Len(analysis_results) <= Len(AnalyzingMessages)
          /\ Len(write_returns) = Len(WritingMessages)
          /\ \A j \in 1..Len(analysis_results) :
                /\ analysis_results[j].file_path = curated_images[j].path
                /\ QueuePosition(Msg("analyzing", j, Len(curated_images)))
                      < QueuePosition(Msg("analyzed", j, 0)))
    /\ [][/\ backend_calls' # backend_calls
                => /\ Len(AnalyzingMessages') = Len(AnalyzingMessages) + 1
                   /\ \A c \in 1..Len(backend_calls'.last) :
                         backend_calls'.last[c].image =
                             curated_images[Len(AnalyzingMessages')].path
          /\ analysis_results' # analysis_results /\ pc = "analyze"
                => /\ Len(AnalyzingMessages') = Len(AnalyzingMessages) + 1
                   /\ Len(analysis_results') = Len(AnalyzingMessages')
          /\ lastWrite' # lastWrite
                => /\ Len(WritingMessages') = Len(WritingMessages) + 1
                   /\ lastWrite'.path = curated_images[Len(WritingMessages')].path]_vars

\* C25 witness: a run whose curated list has the directory's second file
\* first, both analyzed by a backend and both written, the first file last.
C25_Witness ==
    /\ pc = "done"
    /\ Len(curated_images) = 2
    /\ curated_images[1].path = 2
    /\ Len(AnalyzingMessages) = 2
    /\ Len(WritingMessages) = 2
    /\ backend_calls.total >= 2
    /\ lastWrite.path = 1


\* C26 (Spec): a writer call leaves the analysis records held for the
\* caller as the analysis stage produced them, and no returned
\* Classification carries the GALLERY tag the writer adds (no backend answer
\* of these runs, nor the placeholder, has it).
C26_PersistLeavesClassification ==
    /\ [][write_returns' # write_returns => analysis_results' = analysis_results]_vars
    /\ [](pc = "done"
             => \A j \in 1..Len(analysis_results) :
                   ~InTags("GALLERY", analysis_results[j].analysis.tags))


\* the images whose sidecar write of this batch returned True
SidecarWritten ==
    {analysis_results[j].file_path :
        j \in {m \in 1..Len(write_returns) : write_returns[m]}}

\* C27 (SpecSidecars): after a sidecar-mode run the curated images that were
\* persisted have pairwise different sidecar files, each holding what was
\* written for its own image, also for two images that differ only in
\* extension.
C27_OneSidecarPerImage ==
    (pc = "done" /\ result.success /\ ~config.use_exif)
        => /\ \A a, b \in SidecarWritten :
                 a # b => sidecar[a].name # sidecar[b].name
           /\ \A j \in 1..Len(analysis_results) :
                 write_returns[j]
                    => LET w == CoreXmpWrite(analysis_results[j].analysis)
                       IN /\ sidecar[analysis_results[j].file_path].present
                          /\ sidecar[analysis_results[j].file_path].record =
                                [rating |-> w.rating, tags |-> w.tags,
                                 description |-> w.description,
                                 comment |-> w.comment]


\* the (path, score) pairs the scoring loop builds over the files
RECURSIVE ScoresOf(_)
ScoresOf(files) ==
    IF files = <<>> THEN <<>>
    ELSE LET f == files[Len(files)]
             score == ScoreImage(image_dir[f], config.iqa_loaded)
             before == ScoresOf(SubSeq(files, 1, Len(files) - 1))
         IN IF score # None THEN Append(before, [path |-> f, score |-> score])
            ELSE before

\* what curation gives over this directory when it honours the recursive
\* flag of the configuration
CuratedHonouringFlag ==
    LET s == ScoresOf(Discover(Len(image_dir), config.recursive))
    IN IF s = <<>> THEN <<>> ELSE TopImages(s, config)

\* C28 (SpecEntry): over the same directory and configuration both entry
\* points curate the same images in the same order, those of the files the
\* recursive flag lets discovery find, and so report the same
\* total_images_found.
C28_EntryPointsEquivalent ==
    pc = "curated"
        => /\ curated_images = CuratedHonouringFlag
           /\ Len(image_files) = Len(Discover(Len(image_dir), config.recursive))


\* C29 (SpecButtons): at no time are two pipeline threads the GUI started
\* both still running.
C29_SingleActiveRun == ~(Alive(pc) /\ Alive(gui.other.pc))


\* the run was concluded: handle_completion or handle_error was called and
\* is_processing is false again
Concluded ==
    /\ ~gui.is_processing
    /\ \E j \in 1..Len(gui.handled) :
          gui.handled[j].how \in {"handle_completion", "handle_error"}

\* C30 (SpecGuiFair): under fair scheduling of the pipeline thread and the
\* poll, whenever start_analysis has set is_processing, handle_completion or
\* handle_error is eventually called and is_processing is false again.
C30_EventuallyConcluded == gui.is_processing ~> Concluded

=============================================================================
